---- MODULE Spec2Model ----
(***************************************************************************)
(* Model of pdb2cif's value types (pdb/types.py: Number, AtomName,         *)
(* ResName, ChainID) and of its CIF emitter (pdb/files.py: CIF).           *)
(*                                                                         *)
(* A Python str is a tuple of one-character strings, so that strip,        *)
(* isdigit, replace, ljust and rjust are computed character by character.  *)
(* One behaviour is the life of one object: it is constructed from an      *)
(* input (__post_init__), and then its methods are called.                 *)
(***************************************************************************)
EXTENDS Integers, Sequences, FiniteSets, TLC

\* ------------------------------------------------------------------ bounds
MaxIdLen == 3       \* longest identifier input string
MaxInt == 30        \* largest integer identifier input
MaxNeg == 2         \* integer identifier inputs go down to -MaxNeg
MaxWidth == 4       \* largest width passed to a rendering method
MaxPad == 1         \* most blanks on either side of a name input
MaxMarkers == 2     \* most terminus-marker characters put into a residue name
MaxAtoms == 3       \* most atoms of a structure

None == "None"

\* ------------------------------------------------------- Python str methods
SP == " "

RECURSIVE lstrip(_)
lstrip(s) == IF s # <<>> /\ Head(s) = SP THEN lstrip(Tail(s)) ELSE s

RECURSIVE rstrip(_)
rstrip(s) ==
    IF s # <<>> /\ s[Len(s)] = SP THEN rstrip(SubSeq(s, 1, Len(s) - 1)) ELSE s

\* str.strip(): a new string without the leading and trailing blanks
strip(s) == rstrip(lstrip(s))

DecDigits == <<"0", "1", "2", "3", "4", "5", "6", "7", "8", "9">>

IsDecDigit(c) == \E i \in 1..10 : DecDigits[i] = c

DigitVal(c) == (CHOOSE i \in 1..10 : DecDigits[i] = c) - 1

\* str.isdigit(): every character is a digit and there is at least one
isdigit(s) == s # <<>> /\ \A i \in 1..Len(s) : IsDecDigit(s[i])

RECURSIVE int(_)
\* int(s) of a string of decimal digits
int(s) ==
    IF s = <<>> THEN 0
    ELSE 10 * int(SubSeq(s, 1, Len(s) - 1)) + DigitVal(s[Len(s)])

RECURSIVE str(_)
\* str(k) of an integer
str(k) ==
    IF k < 0 THEN <<"-">> \o str(-k)
    ELSE IF k < 10 THEN <<DecDigits[k + 1]>>
    ELSE str(k \div 10) \o <<DecDigits[(k % 10) + 1]>>

RECURSIVE spaces(_)
spaces(k) == IF k <= 0 THEN <<>> ELSE <<SP>> \o spaces(k - 1)

\* str.ljust(w, " ") and str.rjust(w, " "): no change when len(s) >= w
ljust(s, w) == s \o spaces(w - Len(s))

rjust(s, w) == spaces(w - Len(s)) \o s

RECURSIVE replace(_, _)
\* s.replace(c, ""): every occurrence of the character c is removed
replace(s, c) ==
    IF s = <<>> THEN <<>>
    ELSE IF Head(s) = c THEN replace(Tail(s), c)
    ELSE <<Head(s)>> \o replace(Tail(s), c)

\* c in s
contains(s, c) == \E i \in 1..Len(s) : s[i] = c

\* the strings over alphabet of length 0..k
StringsUpTo(alphabet, k) == UNION {[1..m -> alphabet] : m \in 0..k}


\* -------------------------------------------------- hybrid-36 decoding
\* utils.h36_2_int is not among the source files; it is modelled from the
\* decoding rule of the design document (section 4.1).
Upper36 ==
    <<"0", "1", "2", "3", "4", "5", "6", "7", "8", "9", "A", "B", "C", "D", "E", "F", "G", "H", "I", "J", "K", "L", "M", "N", "O", "P", "Q", "R", "S", "T", "U", "V", "W", "X", "Y", "Z">>

Lower36 ==
    <<"0", "1", "2", "3", "4", "5", "6", "7", "8", "9", "a", "b", "c", "d", "e", "f", "g", "h", "i", "j", "k", "l", "m", "n", "o", "p", "q", "r", "s", "t", "u", "v", "w", "x", "y", "z">>

IsIn(alphabet, c) == \E i \in 1..Len(alphabet) : alphabet[i] = c

ValIn(alphabet, c) == (CHOOSE i \in 1..Len(alphabet) : alphabet[i] = c) - 1

RECURSIVE Pow(_, _)
Pow(b, e) == IF e = 0 THEN 1 ELSE b * Pow(b, e - 1)

RECURSIVE Base36(_, _)
Base36(alphabet, s) ==
    IF s = <<>> THEN 0
    ELSE 36 * Base36(alphabet, SubSeq(s, 1, Len(s) - 1))
         + ValIn(alphabet, s[Len(s)])

\* the hybrid regime: a case-tagged leading letter, then base-36 digits of
\* the same case
H36Valid(alphabet, t) ==
    /\ t # <<>>
    /\ \A j \in 1..Len(t) : IsIn(alphabet, t[j])
    /\ ValIn(alphabet, t[1]) >= 10

H36Hybrid(alphabet, t, offset) ==
    LET w == Len(t) IN
    Pow(10, w) + offset
    + (ValIn(alphabet, t[1]) - 10) * Pow(36, w - 1)
    + Base36(alphabet, SubSeq(t, 2, w))

\* decoding fails on a string that is neither decimal nor validly cased
h36_2_int_raises(s) ==
    LET t == strip(s) IN
    ~isdigit(t) /\ ~H36Valid(Upper36, t) /\ ~H36Valid(Lower36, t)

h36_2_int(s) ==
    LET t == strip(s) IN
    IF isdigit(t) THEN int(t)
    ELSE IF H36Valid(Upper36, t) THEN H36Hybrid(Upper36, t, 0)
    ELSE IF H36Valid(Lower36, t)
         THEN H36Hybrid(Lower36, t, 26 * Pow(36, Len(t) - 1))
    ELSE None

\* ------------------------------------------------------------ Number, ChainID
\* what a call gives: a value, or an exception
Returned(v) == [raised |-> FALSE, val |-> v]

Raised(e) == [raised |-> TRUE, error |-> e]

\* An identifier input is an int or a str: a tagged pair, of which the field
\* of the other type is unused.
IntInput(k) == [type |-> "int", int |-> k, str |-> <<>>]

StrInput(s) == [type |-> "str", int |-> 0, str |-> s]

\* Number._convert_input and ChainID._convert_input have the same body. The
\* value of inpt.strip() is dropped: isdigit, int and h36_2_int are given
\* inpt itself. The result names the call that produced n.
IdentConvert(inpt) ==
    IF inpt.type = "int"
    THEN [n |-> inpt.int, route |-> "int", raised |-> FALSE]
    ELSE LET dropped == strip(inpt.str) IN
         IF isdigit(inpt.str)
         THEN [n |-> int(inpt.str), route |-> "decimal", raised |-> FALSE]
         ELSE [n |-> h36_2_int(inpt.str), route |-> "h36_2_int",
               raised |-> h36_2_int_raises(inpt.str)]

Number_convert_input(inpt) == IdentConvert(inpt)

ChainID_convert_input(inpt) == IdentConvert(inpt)

ChainLetters == <<"A", "B", "C", "D", "E", "F", "G", "H", "I", "J">>

\* mutant: the last character of str(n) is taken
ChainID_as_pdb4namd_last(k, w) ==
    LET c == str(k)[Len(str(k))] IN
    IF k < 0 THEN Raised("ValueError")
    ELSE Returned(rjust(<<ChainLetters[DigitVal(c) + 1]>>, w))

\* ChainID.as_pdb4namd: the first character of str(n) indexes "ABCDEFGHIJ";
\* int("-") raises for a negative n
ChainID_as_pdb4namd(k, w) ==
    LET c == str(k)[1] IN
    IF ~IsDecDigit(c) THEN Raised("ValueError")
    ELSE LET nlast == DigitVal(c)
             n2char == ChainLetters[nlast + 1]
         IN Returned(rjust(<<n2char>>, w))

\* ChainID.as_str and Number.as_str
Ident_as_str(k) == Returned(str(k))

\* ------------------------------------------------------------------ AtomName
\* a dict is a tuple of <<key, value>> pairs in insertion order
DictHas(d, k) == \E i \in 1..Len(d) : d[i][1] = k

DictGet(d, k) == d[CHOOSE i \in 1..Len(d) : d[i][1] = k][2]

\* {v: k for k, v in d.items()}
DictInverse(d) == [i \in 1..Len(d) |-> <<d[i][2], d[i][1]>>]

AtomName_NAMD ==
    << <<<<"O", "1", "P">>, <<"O", "P", "1">>>>,
       <<<<"O", "2", "P">>, <<"O", "P", "2">>>>,
       <<<<"C", "5", "M">>, <<"C", "7">>>> >>

AtomName_convert_input(ipt) ==
    LET t == strip(ipt) IN
    IF DictHas(AtomName_NAMD, t) THEN DictGet(AtomName_NAMD, t) ELSE t

\* the legacy spelling of a canonical name
AtomName_namePDB(nm) ==
    LET DMNA == DictInverse(AtomName_NAMD) IN
    IF DictHas(DMNA, nm) THEN DictGet(DMNA, nm) ELSE nm

AtomName_as_pdb4namd(nm, w) ==
    LET namePDB == AtomName_namePDB(nm) IN
    IF Len(namePDB) = 1 THEN Returned(rjust(ljust(namePDB, 2), w))
    ELSE IF Len(namePDB) = 2 THEN Returned(rjust(ljust(namePDB, 1), w))
    ELSE Returned(rjust(namePDB, w))

AtomName_as_cif(nm) ==
    IF contains(nm, "'") THEN Returned(<<"\"">> \o nm \o <<"\"">>)
    ELSE Returned(nm)

\* ------------------------------------------------------------------- ResName
ResName_NAMD ==
    << <<<<"C", "Y", "T">>, <<"D", "C">>>>,
       <<<<"G", "U", "A">>, <<"D", "G">>>>,
       <<<<"T", "H", "Y">>, <<"D", "T">>>>,
       <<<<"A", "D", "E">>, <<"D", "A">>>> >>

\* mutant: the "3" is removed as well when there is a "5" (if for elif)
ResName_convert_input_both(inpt) ==
    LET t == strip(inpt)
        u == IF contains(t, "5") THEN replace(t, "5") ELSE t
        v == IF contains(u, "3") THEN replace(u, "3") ELSE u
    IN IF DictHas(ResName_NAMD, v) THEN DictGet(ResName_NAMD, v) ELSE v

ResName_convert_input(inpt) ==
    LET t == strip(inpt)
        u == IF contains(t, "5") THEN replace(t, "5")
             ELSE IF contains(t, "3") THEN replace(t, "3")
             ELSE t
    IN IF DictHas(ResName_NAMD, u) THEN DictGet(ResName_NAMD, u) ELSE u

\* ResName.as_pdb4namd: DMNA[name] raises KeyError for a name that is not a
\* value of the table
ResName_as_pdb4namd(nm, w) ==
    LET DMNA == DictInverse(ResName_NAMD) IN
    IF DictHas(DMNA, nm) THEN Returned(rjust(DictGet(DMNA, nm), w))
    ELSE Raised("KeyError")

\* ResName.as_X: name[-1] raises IndexError for the empty name
ResName_as_X(nm) ==
    IF nm = <<>> THEN Raised("IndexError") ELSE Returned(<<nm[Len(nm)]>>)


\* ----------------------------------------------------------------------- CIF
\* files.py line 112 and line 122
StapleLimit == 500

\* mutant: a chain of exactly the limit is a staple too
is_staple_inclusive(length) == length <= StapleLimit

is_staple(length) == length < StapleLimit

C3p == <<"C", "3", "'">>

\* Atom.as_cif is not among the source files: the text of an atom's line is
\* left opaque
Atom_as_cif(a) == [sec |-> "atoms", text |-> "atom", atom |-> a]

\* CIF._set_atoms
CIF_set_atoms(struct_atoms) ==
    [k \in 1..Len(struct_atoms) |-> Atom_as_cif(struct_atoms[k])]

\* mutant: every atom is scanned
CIF_C3ps_unfiltered(struct_atoms) == struct_atoms

\* [a for a in self.struct.atoms if a.atom_name.as_str() == "C3'"]
CIF_C3ps(struct_atoms) ==
    SelectSeq(struct_atoms, LAMBDA a : a.atom_name = C3p)

\* d[k] = v for a key already in d: the key keeps its place
DictSet(d, k, v) ==
    [j \in 1..Len(d) |-> IF d[j][1] = k THEN <<k, v>> ELSE d[j]]

DictKeys(d) == [j \in 1..Len(d) |-> d[j][1]]

\* mutant: a greater residue number is stored by removing the chain's entry
\* and adding it anew, at the end
CIF_chains_step_reinsert(d, a) ==
    LET chain_id == a.chain_id
        res_number == a.res_number
    IN IF ~DictHas(d, chain_id) THEN Append(d, <<chain_id, res_number>>)
       ELSE IF res_number > DictGet(d, chain_id)
            THEN Append(SelectSeq(d, LAMBDA e : e[1] # chain_id),
                        <<chain_id, res_number>>)
       ELSE d

\* one pass of the loop body of CIF._get_chains_seqs, on chains
CIF_chains_step(d, a) ==
    LET chain_id == a.chain_id
        res_number == a.res_number
    IN IF ~DictHas(d, chain_id) THEN Append(d, <<chain_id, res_number>>)
       ELSE IF res_number > DictGet(d, chain_id)
            THEN DictSet(d, chain_id, res_number)
       ELSE d

\* one pass of the loop body of CIF._get_chains_seqs, on seqs
CIF_seqs_step(d, a) ==
    LET chain_id == a.chain_id IN
    IF ~DictHas(d, chain_id) THEN Append(d, <<chain_id, <<a.res_name>>>>)
    ELSE DictSet(d, chain_id, Append(DictGet(d, chain_id), a.res_name))

\* mutant: the entity block is written before the atom block
WriteOrder_entity_early ==
    <<"header", "pdbx_struct", "entity", "atoms", "entity_src", "entity_poly">>

\* the calls of CIF.write, in order
WriteOrder ==
    <<"header", "pdbx_struct", "atoms", "entity", "entity_src", "entity_poly">>

\* where the run of CIF.write stands after the k-th call has returned
AfterCall(k) == IF k < Len(WriteOrder) THEN WriteOrder[k + 1] ELSE "written"

Template(sec, file) == [sec |-> sec, text |-> file]

header_lines(struct_name) ==
    << [sec |-> "header", text |-> "data_", name |-> struct_name],
       Template("header", "header.txt") >>

pdbx_struct_lines(d) ==
    << [sec |-> "pdbx_struct", text |-> "pdbx_struct.txt", NCHAINS |-> Len(d)] >>

atoms_lines(rendered) == <<Template("atoms", "atom_header.txt")>> \o rendered

entity_line(chain_id, length) ==
    [sec |-> "entity", text |-> "line", n |-> chain_id,
     src |-> IF is_staple(length) THEN "syn" ELSE "?  ",
     typ |-> IF is_staple(length) THEN "'STAPLE STRAND'  "
             ELSE "'SCAFFOLD STRAND'"]

entity_lines(d) ==
    <<Template("entity", "entity.txt")>>
    \o [j \in 1..Len(d) |-> entity_line(d[j][1], d[j][2])]

entity_src_line(chain_id, length) ==
    [sec |-> "entity_src", text |-> "line", n |-> chain_id, length |-> length,
     typ |-> IF is_staple(length) THEN "'synthetic construct'" ELSE "?",
     tax |-> IF is_staple(length) THEN "32630" ELSE "?"]

entity_src_lines(d) ==
    <<Template("entity_src", "entity_src.txt")>>
    \o [j \in 1..Len(d) |-> entity_src_line(d[j][1], d[j][2])]

\* the chain label is int_2_chimeraSegID(chain_id - 1), which is not among
\* the source files: the line carries its argument
entity_poly_line(chain_id, seq) ==
    [sec |-> "entity_poly", text |-> "line", n |-> chain_id,
     seq1 |-> seq,
     seq2 |-> [j \in 1..Len(seq) |-> ResName_as_X(seq[j]).val[1]],
     cid |-> chain_id - 1]

entity_poly_lines(d) ==
    <<Template("entity_poly", "entity_poly.txt")>>
    \o [j \in 1..Len(d) |-> entity_poly_line(d[j][1], d[j][2])]


\* -------------------------------------------------------------------- inputs
IdChars == {" ", "0", "1", "7", "A", "a", "-"}

IdentInputs ==
    {IntInput(k) : k \in (-MaxNeg)..MaxInt}
    \cup {StrInput(s) : s \in StringsUpTo(IdChars, MaxIdLen)}

Padded(words) ==
    {spaces(l) \o w \o spaces(r) : l \in 0..MaxPad, r \in 0..MaxPad, w \in words}

AtomWords ==
    {<<"O", "1", "P">>,
     <<"O", "2", "P">>,
     <<"C", "5", "M">>,
     <<"O", "P", "1">>,
     <<"O", "P", "2">>,
     <<"C", "7">>,
     <<"C", "3", "'">>,
     <<"P">>,
     <<"N">>,
     <<"N", "1">>,
     <<"H", "O", "5", "'">>}

AtomNameInputs == Padded(AtomWords)

ResWords ==
    {<<"C", "Y", "T">>,
     <<"G", "U", "A">>,
     <<"T", "H", "Y">>,
     <<"A", "D", "E">>,
     <<"D", "A">>,
     <<"D", "C">>,
     <<"D", "G">>,
     <<"D", "T">>,
     <<"U", "R", "A">>,
     <<"A">>,
     <<>>}

\* a word with a run of terminus markers put in at any place
Marked(words) ==
    UNION {{SubSeq(w, 1, p) \o m \o SubSeq(w, p + 1, Len(w)) :
               p \in 0..Len(w), m \in StringsUpTo({"5", "3"}, MaxMarkers)} :
           w \in words}

ResNameInputs == Padded(Marked(ResWords))

\* the atoms of a structure carry constructed values: a canonical atom name,
\* a residue name, the n of a ChainID and the n of a Number
\* the chain numbers of the atoms of a structure
ChainNumbers == {1, 2}

\* An anchor atom is of a DA or a DT residue, numbered on either side of the
\* staple limit; the other atoms are the P of DA residues numbered at the
\* limit.
AtomRecords ==
    [atom_name : {C3p},
     res_name : {<<"D", "A">>, <<"D", "T">>},
     chain_id : ChainNumbers,
     res_number : {StapleLimit - 1, StapleLimit}]
    \cup [atom_name : {<<"P">>},
          res_name : {<<"D", "A">>},
          chain_id : ChainNumbers,
          res_number : {StapleLimit}]

Structures ==
    {[name |-> "origami", atoms |-> a] : a \in StringsUpTo(AtomRecords, MaxAtoms)}

NoStruct == [name |-> None, atoms |-> <<>>]

\* --------------------------------------------------------------------- state
VARIABLES
    cls,      \* the class of the object: Number, ChainID, AtomName, ResName, CIF
    pc,       \* new, built, raised; for a CIF also the step of its scan or write
    input,    \* _input of a value type
    n,        \* Number.n, ChainID.n
    route,    \* the conversion that produced n: int, decimal, h36_2_int
    name,     \* AtomName.name, ResName.name
    method,   \* the rendering method called last
    width,    \* its width argument
    result,   \* what it returned or raised
    struct,   \* CIF.struct
    atoms,    \* CIF.atoms
    C3ps,     \* the anchor atoms that _get_chains_seqs scans
    i,        \* the place of the scan in C3ps
    chains,   \* chains of _get_chains_seqs, then CIF.chains
    seqs,     \* seqs of _get_chains_seqs, then CIF.seqs
    out       \* the lines written to the file

valueVars == <<input, n, route, name, method, width, result>>

cifVars == <<struct, atoms, C3ps, i, chains, seqs, out>>

vars == <<cls, pc, valueVars, cifVars>>

Init ==
    /\ pc = "new"
    /\ n = None /\ route = None /\ name = None
    /\ method = None /\ width = 0 /\ result = None
    /\ atoms = <<>> /\ C3ps = <<>> /\ i = 0
    /\ chains = <<>> /\ seqs = <<>> /\ out = <<>>
    /\ \/ cls \in {"Number", "ChainID"} /\ input \in IdentInputs
          /\ struct = NoStruct
       \/ cls = "AtomName" /\ input \in AtomNameInputs /\ struct = NoStruct
       \/ cls = "ResName" /\ input \in ResNameInputs /\ struct = NoStruct
       \/ cls = "CIF" /\ input = None /\ struct \in Structures

\* ------------------------------------------------------------- value types
\* Number.__post_init__
Number_post_init ==
    /\ cls = "Number" /\ pc = "new"
    /\ LET r == Number_convert_input(input) IN
       /\ n' = r.n
       /\ route' = r.route
       /\ pc' = IF r.raised THEN "raised" ELSE "built"
    /\ UNCHANGED <<cls, input, name, method, width, result, cifVars>>

\* ChainID.__post_init__
ChainID_post_init ==
    /\ cls = "ChainID" /\ pc = "new"
    /\ LET r == ChainID_convert_input(input) IN
       /\ n' = r.n
       /\ route' = r.route
       /\ pc' = IF r.raised THEN "raised" ELSE "built"
    /\ UNCHANGED <<cls, input, name, method, width, result, cifVars>>

\* AtomName.__post_init__
AtomName_post_init ==
    /\ cls = "AtomName" /\ pc = "new"
    /\ name' = AtomName_convert_input(input)
    /\ pc' = "built"
    /\ UNCHANGED <<cls, input, n, route, method, width, result, cifVars>>

\* ResName.__post_init__
ResName_post_init ==
    /\ cls = "ResName" /\ pc = "new"
    /\ name' = ResName_convert_input(input)
    /\ pc' = "built"
    /\ UNCHANGED <<cls, input, n, route, method, width, result, cifVars>>

\* a method of a built value object is called; the object does not change
Call(m, w, r) ==
    /\ pc = "built"
    /\ method' = m /\ width' = w /\ result' = r
    /\ UNCHANGED <<cls, pc, input, n, route, name, cifVars>>

Call_ChainID_as_pdb4namd ==
    /\ cls = "ChainID"
    /\ \E w \in 1..MaxWidth :
          Call("as_pdb4namd", w, ChainID_as_pdb4namd(n, w))

Call_Ident_as_str ==
    /\ cls \in {"Number", "ChainID"}
    /\ Call("as_str", 0, Ident_as_str(n))

Call_AtomName_as_pdb4namd ==
    /\ cls = "AtomName"
    /\ \E w \in 1..MaxWidth :
          Call("as_pdb4namd", w, AtomName_as_pdb4namd(name, w))

Call_AtomName_as_cif ==
    /\ cls = "AtomName"
    /\ Call("as_cif", 0, AtomName_as_cif(name))

Call_ResName_as_pdb4namd ==
    /\ cls = "ResName"
    /\ \E w \in 1..MaxWidth :
          Call("as_pdb4namd", w, ResName_as_pdb4namd(name, w))

Call_ResName_as_X ==
    /\ cls = "ResName"
    /\ Call("as_X", 0, ResName_as_X(name))


\* ----------------------------------------------------------------------- CIF
\* CIF.__post_init__, first statement: self.atoms = self._set_atoms()
CIF_post_init_atoms ==
    /\ cls = "CIF" /\ pc = "new"
    /\ atoms' = CIF_set_atoms(struct.atoms)
    /\ pc' = "get_chains_seqs"
    /\ UNCHANGED <<cls, valueVars, struct, C3ps, i, chains, seqs, out>>

\* CIF._get_chains_seqs up to its loop: two empty dicts, and the anchors
CIF_get_chains_seqs_enter ==
    /\ cls = "CIF" /\ pc = "get_chains_seqs"
    /\ chains' = <<>>
    /\ seqs' = <<>>
    /\ C3ps' = CIF_C3ps(struct.atoms)
    /\ i' = 1
    /\ pc' = "scan"
    /\ UNCHANGED <<cls, valueVars, struct, atoms, out>>

\* one pass of "for a in C3ps"
CIF_get_chains_seqs_loop ==
    /\ cls = "CIF" /\ pc = "scan"
    /\ i <= Len(C3ps)
    /\ chains' = CIF_chains_step(chains, C3ps[i])
    /\ seqs' = CIF_seqs_step(seqs, C3ps[i])
    /\ i' = i + 1
    /\ UNCHANGED <<cls, pc, valueVars, struct, atoms, C3ps, out>>

\* return chains, seqs: they become self.chains and self.seqs
CIF_get_chains_seqs_return ==
    /\ cls = "CIF" /\ pc = "scan"
    /\ i > Len(C3ps)
    /\ pc' = "built"
    /\ UNCHANGED <<cls, valueVars, cifVars>>

\* CIF.write, on a built CIF or after an earlier write:
\* open(outfile, mode="w+") gives an empty file
CIF_write_open ==
    /\ cls = "CIF" /\ pc \in {"built", "written"}
    /\ out' = <<>>
    /\ pc' = AfterCall(0)
    /\ UNCHANGED <<cls, valueVars, struct, atoms, C3ps, i, chains, seqs>>

\* the k-th call of CIF.write appends its lines to the file
Write(sec, lines) ==
    /\ cls = "CIF" /\ pc = sec
    /\ out' = out \o lines
    /\ pc' = AfterCall(CHOOSE k \in 1..Len(WriteOrder) : WriteOrder[k] = sec)
    /\ UNCHANGED <<cls, valueVars, struct, atoms, C3ps, i, chains, seqs>>

CIF_write_header == Write("header", header_lines(struct.name))

CIF_write_pdbx_struct == Write("pdbx_struct", pdbx_struct_lines(chains))

CIF_write_atoms == Write("atoms", atoms_lines(atoms))

CIF_write_entity == Write("entity", entity_lines(chains))

CIF_write_entity_src == Write("entity_src", entity_src_lines(chains))

CIF_write_entity_poly == Write("entity_poly", entity_poly_lines(seqs))

\* ------------------------------------------------------------ specification
Next ==
    \/ Number_post_init
    \/ ChainID_post_init
    \/ AtomName_post_init
    \/ ResName_post_init
    \/ Call_ChainID_as_pdb4namd
    \/ Call_Ident_as_str
    \/ Call_AtomName_as_pdb4namd
    \/ Call_AtomName_as_cif
    \/ Call_ResName_as_pdb4namd
    \/ Call_ResName_as_X
    \/ CIF_post_init_atoms
    \/ CIF_get_chains_seqs_enter
    \/ CIF_get_chains_seqs_loop
    \/ CIF_get_chains_seqs_return
    \/ CIF_write_open
    \/ CIF_write_header
    \/ CIF_write_pdbx_struct
    \/ CIF_write_atoms
    \/ CIF_write_entity
    \/ CIF_write_entity_src
    \/ CIF_write_entity_poly

Spec == Init /\ [][Next]_vars


\* ==================================================================== claims
IsIdent == cls \in {"Number", "ChainID"}

Constructed == pc \notin {"new"}

\* C1: an identifier built from a string whose stripped form is all decimal
\* digits is built by the plain decimal conversion of the stripped string,
\* without the hybrid-36 decoder, and n is its decimal value.
C1_StripThenDecimal ==
    (IsIdent /\ Constructed /\ input.type = "str" /\ isdigit(strip(input.str)))
    => /\ pc = "built"
       /\ route = "decimal"
       /\ n = int(strip(input.str))

RECURSIVE LeadingDigit(_)
\* the most significant decimal digit of k >= 0
LeadingDigit(k) == IF k < 10 THEN k ELSE LeadingDigit(k \div 10)

Canonical == {<<"D", "A">>, <<"D", "C">>, <<"D", "G">>, <<"D", "T">>}

\* C3: the name of every constructed ResName is one of DA, DC, DG, DT.
C3_ResNameIsCanonical ==
    (cls = "ResName" /\ pc = "built") => name \in Canonical


\* the table lookup that ends ResName._convert_input
ResLookup(u) ==
    IF DictHas(ResName_NAMD, u) THEN DictGet(ResName_NAMD, u) ELSE u

\* the terminus marker of a trimmed residue name: "5" before "3"
Marker(t) ==
    IF contains(t, "5") THEN "5" ELSE IF contains(t, "3") THEN "3" ELSE None

\* t without its p-th character
RemoveAt(t, p) == SubSeq(t, 1, p - 1) \o SubSeq(t, p + 1, Len(t))

\* t without any character c
Without(t, c) == SelectSeq(t, LAMBDA x : x # c)

Occurrences(t, c) == Cardinality({p \in 1..Len(t) : t[p] = c})

\* C4 as stated: exactly one marker character is removed from the trimmed
\* input before the lookup, every other character is kept.
C4_ExactlyOneRemoved ==
    (cls = "ResName" /\ pc = "built")
    => LET t == strip(input)
           m == Marker(t)
       IN IF m = None THEN name = ResLookup(t)
          ELSE \E p \in 1..Len(t) :
                  t[p] = m /\ name = ResLookup(RemoveAt(t, p))

\* C4 amended: every occurrence of the marker ("5" if the trimmed input has
\* one, otherwise "3") is removed before the lookup and every other character
\* is kept; a legacy code followed by "5" or by "3" gives the canonical code
\* of the legacy code.
C4_EveryMarkerRemoved ==
    (cls = "ResName" /\ pc = "built")
    => LET t == strip(input)
           m == Marker(t)
       IN /\ name = ResLookup(IF m = None THEN t ELSE Without(t, m))
          /\ \A j \in 1..Len(ResName_NAMD) :
                t \in {ResName_NAMD[j][1] \o <<"5">>, ResName_NAMD[j][1] \o <<"3">>}
                => name = ResName_NAMD[j][2]

\* C4 witness: a name with two "5" and a "3" that keeps its "3", and a legacy
\* code with a terminus marker that came out canonical
C4_Witness ==
    /\ cls = "ResName" /\ pc = "built"
    /\ \/ /\ Occurrences(strip(input), "5") = 2
          /\ contains(strip(input), "3")
          /\ contains(name, "3") /\ ~contains(name, "5")
       \/ /\ strip(input) = <<"C", "Y", "T", "3">>
          /\ name = <<"D", "C">>

\* C8: AtomName.as_pdb4namd(width) gives a legacy name of 1 or of 2
\* characters one trailing blank, a longer one none, and right-justifies to
\* width; a name that with its blank is no longer than width gives exactly
\* width characters.
C8_TrailingBlankRule ==
    (cls = "AtomName" /\ pc = "built" /\ method = "as_pdb4namd")
    => LET legacy == AtomName_namePDB(name)
           padded == IF Len(legacy) \in {1, 2} THEN legacy \o <<SP>> ELSE legacy
       IN /\ ~result.raised
          /\ result.val = spaces(width - Len(padded)) \o padded
          /\ Len(padded) <= width => Len(result.val) = width

\* C9: the n of a constructed Number or ChainID is never negative.
C9_NeverNegative ==
    (IsIdent /\ pc = "built") => n >= 0


\* ----------------------------------------------------------- claims on CIF
\* the states of a CIF whose scan has returned
Aggregated ==
    cls = "CIF" /\ pc \notin {"new", "get_chains_seqs", "scan"}

IsAnchorOf(a, c) == a.atom_name = C3p /\ a.chain_id = c

\* the residue numbers of the anchor atoms of chain c
AnchorNumbers(c) ==
    {struct.atoms[k].res_number :
        k \in {j \in 1..Len(struct.atoms) : IsAnchorOf(struct.atoms[j], c)}}

Max(S) == CHOOSE m \in S : \A x \in S : x <= m

RECURSIVE AnchorNames(_, _)
\* the residue names of the anchor atoms of chain c, in input order
AnchorNames(as, c) ==
    IF as = <<>> THEN <<>>
    ELSE (IF IsAnchorOf(Head(as), c) THEN <<Head(as).res_name>> ELSE <<>>)
         \o AnchorNames(Tail(as), c)

RECURSIVE FirstAnchors(_, _)
\* the chains of the anchor atoms of as, each at its first anchor atom
FirstAnchors(as, seen) ==
    IF as = <<>> THEN <<>>
    ELSE IF Head(as).atom_name = C3p /\ Head(as).chain_id \notin seen
         THEN <<Head(as).chain_id>>
              \o FirstAnchors(Tail(as), seen \cup {Head(as).chain_id})
    ELSE FirstAnchors(Tail(as), seen)

\* the lines of a block of the file, without the block's template
Block(sec) == SelectSeq(out, LAMBDA l : l.sec = sec /\ l.text = "line")

BlockChains(sec) == [j \in 1..Len(Block(sec)) |-> Block(sec)[j].n]

Staple(c) == Max(AnchorNumbers(c)) < 500

\* C5: a chain is written as a staple exactly when the greatest residue
\* number of its anchor atoms is below 500, otherwise as a scaffold, and its
\* entity line and its entity_src line agree.
C5_StapleBelow500 ==
    cls = "CIF"
    => /\ \A j \in 1..Len(Block("entity")) :
             LET l == Block("entity")[j] IN
             /\ AnchorNumbers(l.n) # {}
             /\ l.src = (IF Staple(l.n) THEN "syn" ELSE "?  ")
             /\ l.typ = (IF Staple(l.n) THEN "'STAPLE STRAND'  "
                         ELSE "'SCAFFOLD STRAND'")
       /\ \A j \in 1..Len(Block("entity_src")) :
             LET l == Block("entity_src")[j] IN
             /\ AnchorNumbers(l.n) # {}
             /\ l.length = Max(AnchorNumbers(l.n))
             /\ l.typ = (IF Staple(l.n) THEN "'synthetic construct'" ELSE "?")
             /\ l.tax = (IF Staple(l.n) THEN "32630" ELSE "?")
       /\ pc = "written"
          => \A c \in ChainNumbers :
                AnchorNumbers(c) # {}
                => /\ \E j \in 1..Len(Block("entity")) : Block("entity")[j].n = c
                   /\ \E j \in 1..Len(Block("entity_src")) :
                         Block("entity_src")[j].n = c

\* C5 witness: a file with a chain whose greatest anchor residue number is
\* 499, written as a staple, and one where it is 500, written as a scaffold
C5_Witness ==
    /\ cls = "CIF" /\ pc = "written"
    /\ \E j, k \in 1..Len(Block("entity")) :
          /\ Max(AnchorNumbers(Block("entity")[j].n)) = 499
          /\ Block("entity")[j].typ = "'STAPLE STRAND'  "
          /\ Block("entity_src")[j].tax = "32630"
          /\ Max(AnchorNumbers(Block("entity")[k].n)) = 500
          /\ Block("entity")[k].typ = "'SCAFFOLD STRAND'"
          /\ Block("entity_src")[k].tax = "?"

\* C6: the sequence of a chain is the residue names of the chain's anchor
\* atoms in input order; the other atoms add nothing, and a chain without an
\* anchor atom has no sequence.
C6_OneEntryPerAnchor ==
    Aggregated
    => \A c \in ChainNumbers :
          IF AnchorNames(struct.atoms, c) = <<>> THEN ~DictHas(seqs, c)
          ELSE DictHas(seqs, c)
               /\ DictGet(seqs, c) = AnchorNames(struct.atoms, c)

AtomsOf(c) == {k \in 1..Len(struct.atoms) : struct.atoms[k].chain_id = c}

\* C6 witness: a chain of three atoms, one of them the anchor, whose
\* sequence has one entry
C6_Witness ==
    /\ Aggregated
    /\ \E c \in ChainNumbers :
          /\ Cardinality(AtomsOf(c)) = 3
          /\ Len(AnchorNames(struct.atoms, c)) = 1
          /\ DictHas(seqs, c) /\ Len(DictGet(seqs, c)) = 1


\* the blocks of a file in the order of the design document (section 4.5)
DocumentBlocks ==
    << header_lines(struct.name),
       pdbx_struct_lines(chains),
       <<Template("atoms", "atom_header.txt")>>
       \o [k \in 1..Len(struct.atoms) |-> Atom_as_cif(struct.atoms[k])],
       entity_lines(chains),
       entity_src_lines(chains),
       entity_poly_lines(seqs) >>

RECURSIVE FirstBlocks(_)
\* the first k blocks, one after the other
FirstBlocks(k) ==
    IF k = 0 THEN <<>> ELSE FirstBlocks(k - 1) \o DocumentBlocks[k]

\* C7: at every moment of a run of CIF.write the file holds the first k
\* blocks of the fixed order, each whole and once, for some k; it holds all
\* six when the run has ended, and none before it has written.
C7_FixedBlockOrder ==
    Aggregated
    => /\ \E k \in 0..6 : out = FirstBlocks(k)
       /\ pc = "written" => out = FirstBlocks(6)
       /\ pc \in {"built", "header"} => out = <<>>

\* C7 witness: a whole file of a structure of two or more atoms and a chain
C7_Witness ==
    /\ cls = "CIF" /\ pc = "written"
    /\ Len(struct.atoms) >= 2 /\ chains # <<>>
    /\ out = FirstBlocks(6)
    /\ Len(out) = 7 + Len(struct.atoms) + 3 * Len(chains)

\* C10: at every step of the scan chains and seqs have the same keys in the
\* same order, that of the first anchor atom of each chain; so the entity,
\* entity_src and entity_poly blocks list the same chains in that order, and
\* NCHAINS is the number of lines of each: the number of chains that have an
\* anchor atom.
C10_SameChainsSameOrder ==
    (cls = "CIF" /\ pc \notin {"new", "get_chains_seqs"})
    => /\ DictKeys(chains) = DictKeys(seqs)
       /\ pc = "scan" => DictKeys(chains) = FirstAnchors(SubSeq(C3ps, 1, i - 1), {})
       /\ pc # "scan" => DictKeys(chains) = FirstAnchors(struct.atoms, {})
       /\ \A sec \in {"entity", "entity_src", "entity_poly"} :
             (\E j \in 1..Len(out) : out[j].sec = sec)
             => BlockChains(sec) = FirstAnchors(struct.atoms, {})
       /\ \A j \in 1..Len(out) :
             out[j].sec = "pdbx_struct"
             => out[j].NCHAINS
                = Cardinality({c \in ChainNumbers : AnchorNumbers(c) # {}})

\* C10 witness: a file of two chains of which the one seen first is not the
\* lower one, and is seen again after the other
C10_Witness ==
    /\ cls = "CIF" /\ pc = "written"
    /\ Len(chains) = 2 /\ chains[1][1] > chains[2][1]
    /\ Len(DictGet(seqs, chains[1][1])) = 2
    /\ C3ps[3].chain_id = chains[1][1]
    /\ BlockChains("entity_poly") = DictKeys(chains)
    /\ \E j \in 1..Len(out) : out[j].sec = "pdbx_struct" /\ out[j].NCHAINS = 2

====
